---- MODULE Spec2Model ----
(***************************************************************************)
(* Model of scansector (src/src/main.rs): the save-file extraction         *)
(* pipeline load_save / extract_object / parse_vector, and the viewer      *)
(* ScanSectorUi::update driven by UI frames and the file-picker thread.    *)
(*                                                                         *)
(* Conventions.  Option<T> is a sequence of length 0 (None) or 1 (Some).   *)
(* A Rust String is a sequence of one-character strings; characters are    *)
(* ordered by their byte value (Code).  Indices into Vec are 0-based as in *)
(* the source, so systems[selected] of the source is systems[selected+1].  *)
(***************************************************************************)
EXTENDS Integers, Sequences, FiniteSets, TLC

VARIABLES
    pick_file,   \* ScanSectorUi.pick_file : Option<JoinHandle<Option<PathBuf>>>
    message,     \* ScanSectorUi.message   : Option<String>
    save,        \* ScanSectorUi.save      : Option<PathBuf>
    systems,     \* ScanSectorUi.systems   : Vec<System>
    filter,      \* ScanSectorUi.filter    : String
    selected,    \* ScanSectorUi.selected  : usize
    nthreads,    \* picker worker threads spawned and not yet joined
    panic,       \* Option<panic message>: Some once the process has panicked
    input,       \* the UI events of the frame update last ran for
    path,        \* the argument of a direct call of load_save
    ret          \* Option<outcome> of that call

vars == <<pick_file, message, save, systems, filter, selected, nthreads, panic, input,
          path, ret>>

\* ------------------------------------------------------------------ bounds
\* Most system records in a generated document.
MaxSys == 3
\* Most planet / generic-entity records in a generated system.
MaxObj == 2

\* ------------------------------------------------------------- Option, Seq
None == <<>>
Some(x) == <<x>>

SeqsUpTo(S, n) == UNION {[1..k -> S] : k \in 0..n}

RECURSIVE Concat(_)
Concat(ss) == IF ss = <<>> THEN <<>> ELSE Head(ss) \o Concat(Tail(ss))

Min(S) == CHOOSE m \in S : \A k \in S : m <= k

\* --------------------------------------------------------------- characters
\* Byte values of the characters the model's strings are made of.
Code == [c \in {"|", "-", "0", "1", "2", "3", "5", "7", "B", "a", "b"} |->
           CASE c = "|" -> 124 [] c = "-" -> 45
             [] c = "0" -> 48 [] c = "1" -> 49 [] c = "2" -> 50 [] c = "3" -> 51
             [] c = "5" -> 53 [] c = "7" -> 55
             [] c = "B" -> 66 [] c = "a" -> 97 [] c = "b" -> 98]

IsDigit(c) == Code[c] >= 48 /\ Code[c] <= 57

\* String's Ord: bytewise lexicographic, a proper prefix first.
StrLess(a, b) ==
    \/ Len(a) < Len(b) /\ \A k \in 1..Len(a) : a[k] = b[k]
    \/ \E k \in 1..Len(a) :
          /\ k <= Len(b)
          /\ Code[a[k]] < Code[b[k]]
          /\ \A j \in 1..(k - 1) : a[j] = b[j]

StrLeq(a, b) == a = b \/ StrLess(a, b)

\* str::to_lowercase on the model's alphabet.
to_lowercase(s) == [k \in 1..Len(s) |-> IF s[k] = "B" THEN "b" ELSE s[k]]

\* str::contains: pat occurs in s as a contiguous substring.
contains(s, pat) ==
    \E k \in 0..(Len(s) - Len(pat)) : \A j \in 1..Len(pat) : s[k + j] = pat[j]

\* ---------------------------------------------------------------- XML tree
\* A roxmltree element: its tag name, its bN attribute, its text and children.
Elem(tag, children) == [tag |-> tag, bN |-> None, text |-> None, children |-> children]
Leaf(tag, text) == [tag |-> tag, bN |-> None, text |-> text, children |-> <<>>]
Sstm(bN, children) == [tag |-> "Sstm", bN |-> bN, text |-> None, children |-> children]

\* Node::descendants: the node itself, then its subtree, in document order.
RECURSIVE descendants(_)
descendants(n) ==
    <<n>> \o Concat([k \in 1..Len(n.children) |-> descendants(n.children[k])])

\* Iterator::filter on the tag name.
with_tag(nodes, tag) == SelectSeq(nodes, LAMBDA n : n.tag = tag)

\* Iterator::find on the tag name: the first match, if any.
find_tag(nodes, tag) ==
    LET hits == with_tag(nodes, tag)
    IN  IF hits = <<>> THEN None ELSE Some(hits[1])

\* ------------------------------------------------------------ parse_vector
\* str::split(|b| b == '|'): the fields between the delimiters (one empty field
\* for the empty string).
RECURSIVE split(_)
split(v) ==
    LET bars == {k \in 1..Len(v) : v[k] = "|"}
    IN  IF bars = {} THEN <<v>>
        ELSE <<SubSeq(v, 1, Min(bars) - 1)>> \o split(SubSeq(v, Min(bars) + 1, Len(v)))

RECURSIVE digits_value(_)
digits_value(s) ==
    IF s = <<>> THEN 0
    ELSE 10 * digits_value(SubSeq(s, 1, Len(s) - 1)) + (Code[s[Len(s)]] - 48)

\* str::parse::<f64>().ok() on the model's alphabet (digits, '-', letters, '|'):
\* an optional sign followed by at least one digit, nothing else.
parse_f64(s) ==
    LET neg  == s # <<>> /\ s[1] = "-"
        body == IF neg THEN Tail(s) ELSE s
    IN  IF body # <<>> /\ \A k \in 1..Len(body) : IsDigit(body[k])
        THEN Some(IF neg THEN 0 - digits_value(body) ELSE digits_value(body))
        ELSE None

\* The second field defaulted to zero when missing, instead of failing.
parse_vector_defaulting(v) ==
    LET fields == split(v)
        x == parse_f64(fields[1])
        y == IF Len(fields) < 2 THEN Some(0) ELSE parse_f64(fields[2])
    IN  IF x = None \/ y = None THEN None ELSE Some([x |-> x[1], y |-> y[1]])

parse_vector(v) ==
    LET fields == split(v)
        x == parse_f64(fields[1])
        y == IF Len(fields) < 2 THEN None ELSE parse_f64(fields[2])
    IN  IF x = None \/ y = None THEN None ELSE Some([x |-> x[1], y |-> y[1]])

\* -------------------------------------------------------------- json::parse
JString(s) == [kind |-> "string", str |-> s, entries |-> <<>>]
JNumber == [kind |-> "number", str |-> "", entries |-> <<>>]
JArray == [kind |-> "array", str |-> "", entries |-> <<>>]
JObject(entries) == [kind |-> "object", str |-> "", entries |-> entries]
Entry(k, v) == [key |-> k, value |-> v]

\* json::parse(text).ok() on the payload texts the model's documents carry.
json_parse(text) ==
    CASE text = <<"{\"f0\":\"Corvus III\"}">> ->
            Some(JObject(<<Entry("f0", JString("Corvus III"))>>))
      [] text = <<"{\"f0\":\"Derelict Station\"}">> ->
            Some(JObject(<<Entry("f0", JString("Derelict Station"))>>))
      [] text = <<"{\"a\":1,\"f0\":\"Hegemony Outpost\"}">> ->
            Some(JObject(<<Entry("a", JNumber), Entry("f0", JString("Hegemony Outpost"))>>))
      [] text = <<"{\"f1\":\"x\"}">> -> Some(JObject(<<Entry("f1", JString("x"))>>))
      [] text = <<"{\"f0\":7}">> -> Some(JObject(<<Entry("f0", JNumber)>>))
      [] text = <<"[\"f0\"]">> -> Some(JArray)
      [] OTHER -> None

\* JsonValue::entries().find(|e| e.0 == "f0")?.1.as_str()
f0_str(what) ==
    LET hits == SelectSeq(what.entries, LAMBDA e : e.key = "f0")
    IN  IF what.kind # "object" \/ hits = <<>> THEN None
        ELSE IF hits[1].value.kind # "string" THEN None
        ELSE Some(hits[1].value.str)

\* ----------------------------------------------------------- extract_object
extract_object(node) ==
    LET d    == descendants(node)
        locN == find_tag(d, "loc")
        loc  == IF locN = None \/ locN[1].text = None THEN None
                ELSE parse_vector(locN[1].text[1])
        mission == \E k \in 1..Len(d) : d[k].tag = "MReq"
        j0N  == find_tag(d, "j0")
        what == IF j0N = None \/ j0N[1].text = None THEN None
                ELSE json_parse(j0N[1].text[1])
        name == IF what = None THEN None ELSE f0_str(what[1])
    IN  IF loc = None \/ name = None THEN None
        ELSE Some([name |-> name[1], planet |-> FALSE, pos |-> loc[1],
                   mission |-> mission])

\* The Some results of extract_object over nodes, in order (the two loops'
\* "let Some(..) = extract_object(..) else { continue }").
extracted(nodes) ==
    LET ok == SelectSeq(nodes, LAMBDA n : extract_object(n) # None)
    IN  [k \in 1..Len(ok) |-> extract_object(ok[k])[1]]

set_planet(objs) == [k \in 1..Len(objs) |-> [objs[k] EXCEPT !.planet = TRUE]]

\* One pass over the subtree in document order, planets and entities mixed.
system_objects_one_pass(sys) ==
    LET d   == SelectSeq(descendants(sys), LAMBDA n : n.tag \in {"Plnt", "CCEnt"})
        ok  == SelectSeq(d, LAMBDA n : extract_object(n) # None)
    IN  [k \in 1..Len(ok) |->
            [extract_object(ok[k])[1] EXCEPT !.planet = (ok[k].tag = "Plnt")]]

\* The two loops of load_save over one system record.
system_objects(sys) ==
    set_planet(extracted(with_tag(descendants(sys), "Plnt")))
        \o extracted(with_tag(descendants(sys), "CCEnt"))

\* A record without the attribute taken with an empty name instead of skipped.
named_systems_defaulting(nodes) ==
    [k \in 1..Len(nodes) |->
        IF nodes[k].bN = None THEN [nodes[k] EXCEPT !.bN = Some(<<>>)] ELSE nodes[k]]

\* "let Some(name) = sys.attribute("bN") else { continue }"
named_systems(nodes) == SelectSeq(nodes, LAMBDA n : n.bN # None)

\* Systems without objects left out of the result.
collect_systems_nonempty(root) ==
    LET named == named_systems(with_tag(descendants(root), "Sstm"))
        all == [k \in 1..Len(named) |->
                  [name |-> named[k].bN[1], objects |-> system_objects(named[k])]]
    IN  SelectSeq(all, LAMBDA s : s.objects # <<>>)

\* The outer loop of load_save: the systems pushed, in document order.
collect_systems(root) ==
    LET named == named_systems(with_tag(descendants(root), "Sstm"))
    IN  [k \in 1..Len(named) |->
            [name |-> named[k].bN[1], objects |-> system_objects(named[k])]]

\* The vector left as collected.
sort_skipped(v) == {v}

\* slice::sort_unstable_by_key(|s| s.name.clone()): some arrangement of v with
\* the keys ascending; the order of elements with equal keys is unspecified.
sort_unstable_by_key(v) ==
    LET ps == {p \in Permutations(1..Len(v)) :
                 \A i \in 1..Len(v) : \A j \in 1..Len(v) :
                     i < j => StrLeq(v[p[i]].name, v[p[j]].name)}
    IN  {[k \in 1..Len(v) |-> v[p[k]]] : p \in ps}

\* --------------------------------------------------------------- load_save
\* A path stands for the file behind it: whether read_to_string succeeds,
\* whether the text is well-formed XML, and the tree it parses to.
File(readable, wellformed, root) ==
    [readable |-> readable, wellformed |-> wellformed, root |-> root]

Ok(v) == [tag |-> "Ok", systems |-> v, msg |-> ""]
Err(m) == [tag |-> "Err", systems |-> <<>>, msg |-> m]
Panicked(m) == [tag |-> "Panic", systems |-> <<>>, msg |-> m]

IoErrorText == "No such file or directory (os error 2)"
ParseUnwrapText == "called Result::unwrap() on an Err value: ParseError"
IndexText == "index out of bounds"

\* The outcomes of load_save(path): Err from the read, a panic from the unwrap
\* of the XML parse, or Ok with one of the sort's arrangements.
load_save(p) ==
    IF ~p.readable THEN {Err(IoErrorText)}
    ELSE IF ~p.wellformed THEN {Panicked(ParseUnwrapText)}
    ELSE {Ok(v) : v \in sort_unstable_by_key(collect_systems(p.root))}

\* ------------------------------------------------------- generated documents
LocLeaf(t) == Leaf("loc", Some(t))
J0Leaf(t) == Leaf("j0", Some(<<t>>))
MReqDeep == Elem("tags", <<Elem("MReq", <<>>)>>)

JCorvus == "{\"f0\":\"Corvus III\"}"
JDerelict == "{\"f0\":\"Derelict Station\"}"
JHegemony == "{\"a\":1,\"f0\":\"Hegemony Outpost\"}"

\* The children of a planet or generic-entity record: three that extract, and
\* one for each way an extraction step fails.
ObjBodies ==
    { <<LocLeaf(<<"1", "|", "2">>), J0Leaf(JCorvus)>>,
      <<LocLeaf(<<"-", "5", "|", "7">>), MReqDeep, J0Leaf(JDerelict)>>,
      <<J0Leaf(JHegemony), LocLeaf(<<"0", "|", "0", "|", "3">>)>>,
      <<J0Leaf(JCorvus)>>,
      <<LocLeaf(<<"1">>), J0Leaf(JCorvus)>>,
      <<LocLeaf(<<"a", "|", "b">>), J0Leaf(JCorvus)>>,
      <<LocLeaf(<<"1", "|">>), MReqDeep, J0Leaf(JCorvus)>>,
      <<Leaf("loc", None), J0Leaf(JCorvus)>>,
      <<LocLeaf(<<"1", "|", "2">>)>>,
      <<LocLeaf(<<"1", "|", "2">>), Leaf("j0", None)>>,
      <<LocLeaf(<<"1", "|", "2">>), J0Leaf("{\"f0\":")>>,
      <<LocLeaf(<<"1", "|", "2">>), J0Leaf("{\"f1\":\"x\"}")>>,
      <<LocLeaf(<<"1", "|", "2">>), J0Leaf("{\"f0\":7}")>>,
      <<LocLeaf(<<"1", "|", "2">>), J0Leaf("[\"f0\"]")>>,
      <<LocLeaf(<<"a">>), LocLeaf(<<"3", "|", "5">>), J0Leaf(JCorvus)>>,
      <<LocLeaf(<<"3", "|", "5">>), J0Leaf("{\"f1\":\"x\"}"), J0Leaf(JDerelict)>> }

ObjNodes == {Elem(t, b) : t \in {"Plnt", "CCEnt"}, b \in ObjBodies}

GoodPlanet == Elem("Plnt", <<LocLeaf(<<"1", "|", "2">>), J0Leaf(JCorvus)>>)
GoodEntity == Elem("CCEnt", <<LocLeaf(<<"-", "5", "|", "7">>), MReqDeep, J0Leaf(JDerelict)>>)

\* The records put side by side in longer runs: three that extract and two
\* that do not.
CoreBodies ==
    { <<LocLeaf(<<"1", "|", "2">>), J0Leaf(JCorvus)>>,
      <<LocLeaf(<<"-", "5", "|", "7">>), MReqDeep, J0Leaf(JDerelict)>>,
      <<J0Leaf(JHegemony), LocLeaf(<<"0", "|", "0", "|", "3">>)>>,
      <<LocLeaf(<<"1">>), J0Leaf(JCorvus)>>,
      <<LocLeaf(<<"a">>), LocLeaf(<<"3", "|", "5">>), J0Leaf(JCorvus)>> }

CoreNodes == {Elem(t, b) : t \in {"Plnt", "CCEnt"}, b \in CoreBodies}

\* The bN attribute of a system record: absent, empty, or a name.
NameOpts == {None, Some(<<>>), Some(<<"B">>), Some(<<"a">>), Some(<<"B", "a">>)}

\* System records: each name without records, and two of them with a planet.
SysNodes ==
    {Sstm(n, <<>>) : n \in NameOpts}
        \cup {Sstm(n, <<GoodPlanet>>) : n \in {Some(<<>>), Some(<<"B">>)}}

Root(children) == Elem("CampaignEngine", children)
OneSystem(records) == Root(<<Sstm(Some(<<"a">>), records)>>)

\* One named system holding: up to MaxObj of the core records; or any one
\* record, alone, before a planet that extracts, or after an entity that does.
DocsObjects ==
    {OneSystem(objs) : objs \in SeqsUpTo(CoreNodes, MaxObj)}
        \cup {OneSystem(<<n>>) : n \in ObjNodes}
        \cup {OneSystem(<<n, GoodPlanet>>) : n \in ObjNodes}
        \cup {OneSystem(<<GoodEntity, n>>) : n \in ObjNodes}

\* Up to MaxSys system records side by side.
DocsSystems == {Root(ss) : ss \in SeqsUpTo(SysNodes, MaxSys)}

\* Records nested in one another.
DocsNested ==
    { Root(<<Sstm(Some(<<"B">>),
                  <<GoodEntity,
                    Sstm(Some(<<"a">>), <<GoodPlanet, GoodEntity>>),
                    Elem("Plnt", <<J0Leaf(JHegemony), LocLeaf(<<"7", "|", "7">>)>>)>>)>>),
      Root(<<Sstm(Some(<<"a">>),
                  <<Elem("CCEnt", <<GoodPlanet,
                                    LocLeaf(<<"-", "5", "|", "7">>),
                                    J0Leaf(JDerelict)>>)>>)>>),
      Root(<<Sstm(None, <<Sstm(Some(<<"B">>), <<Elem("o", <<GoodEntity>>)>>)>>)>>),
      Sstm(Some(<<"B", "a">>),
           <<Elem("Plnt", <<LocLeaf(<<"1">>), Elem("CCEnt", <<J0Leaf(JDerelict)>>)>>)>>) }

Docs == DocsObjects \cup DocsSystems \cup DocsNested

Unreadable == File(FALSE, FALSE, Root(<<>>))
Malformed == File(TRUE, FALSE, Root(<<>>))

\* The paths load_save is called with directly.
LoadFiles == {Unreadable, Malformed} \cup {File(TRUE, TRUE, d) : d \in Docs}

\* The files the picker dialog can return.
Doc0 == Root(<<>>)
Doc1 == Root(<<Sstm(Some(<<"a">>), <<GoodPlanet>>)>>)
Doc2 == Root(<<Sstm(Some(<<"B">>), <<GoodEntity>>), Sstm(Some(<<"B">>), <<>>)>>)
Doc3 == Root(<<Sstm(Some(<<"a">>), <<>>), Sstm(Some(<<"B", "a">>), <<GoodPlanet>>),
               Sstm(Some(<<"B">>), <<GoodEntity>>)>>)
PickFiles == {Unreadable, Malformed} \cup {File(TRUE, TRUE, d) : d \in {Doc0, Doc1, Doc2, Doc3}}

\* What the user can type into the filter box.
Filters == {<<>>, <<"b">>, <<"B">>}

\* One frame's UI events: nothing, a click on "Pick Save", an edit of the
\* filter box, or a click on entry `index` of the system list.
Event(kind, text, index) == [kind |-> kind, text |-> text, index |-> index]
NoEvent == Event("none", <<>>, 0)
Events ==
    {NoEvent, Event("click", <<>>, 0)}
        \cup {Event("type", f, 0) : f \in Filters}
        \cup {Event("select", <<>>, i) : i \in 0..(MaxSys - 1)}

\* ------------------------------------------------------------- ScanSectorUi
\* The viewer's fields, with the process around them, as one value.
State ==
    [pick_file |-> pick_file, message |-> message, save |-> save, systems |-> systems,
     filter |-> filter, selected |-> selected, nthreads |-> nthreads, panic |-> panic]

\* A JoinHandle: whether its thread has finished, and with what result.
Handle(finished, result) == [finished |-> finished, result |-> result]

\* The Err arm dropping the list it could not replace.
apply_load_clearing(s, out) ==
    CASE out.tag = "Ok" -> [s EXCEPT !.systems = out.systems, !.message = None]
      [] out.tag = "Err" -> [s EXCEPT !.systems = <<>>, !.message = Some(out.msg)]
      [] OTHER -> [s EXCEPT !.panic = Some(out.msg)]

\* "match load_save(path) { Ok(systems) => .., Err(e) => .. }"; a panic inside
\* load_save ends the process where it stands.
apply_load(s, out) ==
    CASE out.tag = "Ok" -> [s EXCEPT !.systems = out.systems, !.message = None]
      [] out.tag = "Err" -> [s EXCEPT !.message = Some(out.msg)]
      [] OTHER -> [s EXCEPT !.panic = Some(out.msg)]

\* The outcomes the load of this frame can have (one placeholder if the frame
\* loads nothing).
load_outcomes(s) ==
    IF s.pick_file # None /\ s.pick_file[1].finished /\ s.pick_file[1].result # None
    THEN load_save(s.pick_file[1].result[1])
    ELSE {Ok(<<>>)}

\* A cancelled dialog wiping the message along with the path.
poll_picker_wiping(s, out) ==
    IF s.pick_file = None \/ ~s.pick_file[1].finished THEN s
    ELSE LET joined == [s EXCEPT !.pick_file = None, !.nthreads = @ - 1,
                                 !.save = s.pick_file[1].result]
         IN  IF joined.save = None THEN [joined EXCEPT !.message = None]
             ELSE apply_load(joined, out)

\* "if self.pick_file ... is_finished() { take, join, load }"
poll_picker(s, out) ==
    IF s.pick_file = None \/ ~s.pick_file[1].finished THEN s
    ELSE LET joined == [s EXCEPT !.pick_file = None, !.nthreads = @ - 1,
                                 !.save = s.pick_file[1].result]
         IN  IF joined.save = None THEN joined ELSE apply_load(joined, out)

\* The button left enabled while a picker is outstanding.
pick_enabled_always(s) == TRUE

\* "ui.add_enabled_ui(self.pick_file.is_none(), ..)"
pick_enabled(s) == s.pick_file = None

\* "if ui.button("Pick Save").clicked() { self.pick_file = Some(spawn(..)) }"
pick_button(s, ev) ==
    IF s.panic = None /\ pick_enabled(s) /\ ev.kind = "click"
    THEN [s EXCEPT !.pick_file = Some(Handle(FALSE, None)), !.nthreads = @ + 1]
    ELSE s

\* The central panel: the filter box, the system list (which indexes
\* systems[selected] for its caption) and render_system(systems[selected]).
central_panel(s, ev) ==
    IF s.panic # None \/ s.systems = <<>> THEN s
    ELSE LET typed == IF ev.kind = "type" THEN [s EXCEPT !.filter = ev.text] ELSE s
         IN  IF typed.selected >= Len(typed.systems)
             THEN [typed EXCEPT !.panic = Some(IndexText)]
             ELSE IF /\ ev.kind = "select"
                     /\ ev.index < Len(typed.systems)
                     /\ contains(to_lowercase(typed.systems[ev.index + 1].name),
                                 to_lowercase(typed.filter))
                  THEN [typed EXCEPT !.selected = ev.index]
                  ELSE typed

\* ---------------------------------------------------------------- actions
\* ScanSectorUi::default(), no call of load_save under way.
ViewerInit ==
    /\ pick_file = None /\ message = None /\ save = None /\ systems = <<>>
    /\ filter = <<>> /\ selected = 0 /\ nthreads = 0 /\ panic = None
    /\ input = NoEvent

Init == ViewerInit /\ path = Unreadable /\ ret = None

\* One frame: ScanSectorUi::update from top to bottom.
update ==
    /\ panic = None
    /\ \E ev \in Events : \E out \in load_outcomes(State) :
         LET s == central_panel(pick_button(poll_picker(State, out), ev), ev)
         IN  /\ pick_file' = s.pick_file /\ message' = s.message /\ save' = s.save
             /\ systems' = s.systems /\ filter' = s.filter /\ selected' = s.selected
             /\ nthreads' = s.nthreads /\ panic' = s.panic
             /\ input' = ev
    /\ UNCHANGED <<path, ret>>

\* The picker thread: the dialog closes with a file, or cancelled.
picker_thread ==
    /\ panic = None
    /\ pick_file # None /\ ~pick_file[1].finished
    /\ \E r \in {None} \cup {Some(f) : f \in PickFiles} :
         pick_file' = Some(Handle(TRUE, r))
    /\ UNCHANGED <<message, save, systems, filter, selected, nthreads, panic, input,
                   path, ret>>

Next == update \/ picker_thread

Spec == Init /\ [][Next]_vars

\* load_save called directly on each of the generated files.
LoadInit == ViewerInit /\ path \in LoadFiles /\ ret = None

call_load_save ==
    /\ ret = None
    /\ \E out \in load_save(path) : ret' = Some(out)
    /\ UNCHANGED <<pick_file, message, save, systems, filter, selected, nthreads, panic,
                   input, path>>

LoadNext == call_load_save

SpecLoad == LoadInit /\ [][LoadNext]_vars

\* ----------------------------------------------------- vocabulary of claims
Returned == ret # None /\ ret[1].tag = "Ok"
Result == ret[1].systems

\* The system records of the called document, in document order.
SystemNodes == with_tag(descendants(path.root), "Sstm")
NamedNodes == SelectSeq(SystemNodes, LAMBDA n : n.bN # None)

Count(seq, x) == Cardinality({k \in 1..Len(seq) : seq[k] = x})
SameBag(a, b) == Len(a) = Len(b) /\ \A k \in 1..Len(a) : Count(a, a[k]) = Count(b, a[k])

Names(v) == [k \in 1..Len(v) |-> v[k].name]

IsRecord(n) == n.tag \in {"Plnt", "CCEnt"}

\* The state of the picker the next frame will find.
Picked == pick_file # None /\ pick_file[1].finished /\ pick_file[1].result # None
PickedUnreadable == Picked /\ ~pick_file[1].result[1].readable
PickedMalformed ==
    Picked /\ pick_file[1].result[1].readable /\ ~pick_file[1].result[1].wellformed
PickedDocument ==
    Picked /\ pick_file[1].result[1].readable /\ pick_file[1].result[1].wellformed

\* ------------------------------------------------------------------ claims

\* C1: in every reachable viewer state with a non-empty system list the
\* selected index is below the number of systems, also after a shorter list
\* has replaced the one the index was chosen in.
C1_SelectedInRange == systems # <<>> => selected < Len(systems)

\* C2: the frame that loads a readable file that is not well-formed XML gets
\* an error value back (the process does not panic, the message is set) and
\* leaves the system list as it was.
C2_ParseErrorReturned ==
    [][PickedMalformed => panic' = None /\ message' # None /\ systems' = systems]_vars

\* C3: the frame that finds the picked path unreadable sets the message to the
\* error's text and leaves the system list and the selected index as they
\* were before the load (the index moves only by the user's own click on a
\* list entry in that frame).
C3_IoErrorKeepsList ==
    [][PickedUnreadable =>
          /\ message' = Some(IoErrorText)
          /\ systems' = systems
          /\ selected' # selected => input'.kind = "select" /\ selected' = input'.index]_vars

C3_Witness ==
    /\ message = Some(IoErrorText) /\ save = Some(Unreadable)
    /\ Len(systems) = 3 /\ selected = 2 /\ panic = None

\* C4: at most one picker thread is spawned and not yet joined, and it is the
\* one whose handle the viewer holds: a frame spawns a thread only when it
\* holds no handle.
C4_OnePicker == nthreads <= 1 /\ (nthreads = 1 <=> pick_file # None)

C4_Witness ==
    /\ pick_file # None /\ ~pick_file[1].finished /\ nthreads = 1
    /\ save # None /\ systems # <<>>

\* C10: while an error message is set, a step clears it exactly when it is the
\* frame that loads a readable, well-formed file; that frame replaces the
\* system list by the loaded one.  Cancelled picks and failed loads keep it.
C10_MessageUntilSuccess ==
    [][message # None =>
          /\ (message' = None) <=> PickedDocument
          /\ PickedDocument =>
                \E out \in load_save(pick_file[1].result[1]) : systems' = out.systems]_vars

C10_Witness ==
    /\ message = Some(IoErrorText) /\ save = None /\ systems # <<>>
    /\ PickedDocument /\ panic = None

\* r arranges v by name with equal names kept in v's order.
IsStableSortOf(r, v) ==
    \E p \in Permutations(1..Len(v)) :
        /\ r = [k \in 1..Len(v) |-> v[p[k]]]
        /\ \A i \in 1..Len(v) : \A j \in 1..Len(v) :
              i < j => \/ StrLess(v[p[i]].name, v[p[j]].name)
                       \/ v[p[i]].name = v[p[j]].name /\ p[i] < p[j]

C6_NonEmptyNames == Returned => \A k \in 1..Len(Result) : Result[k].name # <<>>

\* C6 (amended): every System returned carries the value of the bN attribute
\* of a system record, so its name is empty exactly when that value is: there
\* are as many Systems named "" as records whose attribute is "".
C6_NameFromAttribute ==
    Returned =>
        /\ \A k \in 1..Len(Result) :
              \E i \in 1..Len(SystemNodes) : SystemNodes[i].bN = Some(Result[k].name)
        /\ Count(Names(Result), <<>>)
              = Cardinality({i \in 1..Len(SystemNodes) : SystemNodes[i].bN = Some(<<>>)})

C6_Witness ==
    /\ Returned
    /\ \E k \in 1..Len(Result) : Result[k].name = <<>> /\ Result[k].objects # <<>>
    /\ \E k \in 1..Len(Result) : Result[k].name # <<>>
    /\ \E i \in 1..Len(SystemNodes) : SystemNodes[i].bN = None

\* No planet or generic-entity record below n yields an object.
NoneExtractable(n) ==
    \A k \in 1..Len(descendants(n)) :
        IsRecord(descendants(n)[k]) => extract_object(descendants(n)[k]) = None

\* C7: the result holds no System for a system record without the name
\* attribute and one System of that name for each record that has it (as
\* many Systems of a name as records of that name); a named record with no
\* extractable object is there with an empty object list.
C7_OneSystemPerNamedRecord ==
    Returned =>
        /\ Len(Result) = Cardinality({i \in 1..Len(SystemNodes) : SystemNodes[i].bN # None})
        /\ \A i \in 1..Len(SystemNodes) :
              SystemNodes[i].bN # None =>
                  Count(Names(Result), SystemNodes[i].bN[1])
                      = Cardinality({j \in 1..Len(SystemNodes) :
                                        SystemNodes[j].bN = SystemNodes[i].bN})
        /\ \A i \in 1..Len(SystemNodes) :
              SystemNodes[i].bN # None /\ NoneExtractable(SystemNodes[i]) =>
                  \E k \in 1..Len(Result) :
                      Result[k] = [name |-> SystemNodes[i].bN[1], objects |-> <<>>]

C7_Witness ==
    /\ Returned /\ Len(Result) = 2
    /\ \E i \in 1..Len(SystemNodes) : SystemNodes[i].bN = None
    /\ \E k \in 1..Len(Result) : Result[k].objects = <<>>
    /\ \E k \in 1..Len(Result) : Result[k].objects # <<>>
    /\ Result[1].name = Result[2].name

\* A text of at least two '|'-separated fields of which the first two are
\* numbers, and the position they give.
TwoNumbers(t) ==
    /\ Len(split(t)) >= 2
    /\ parse_f64(split(t)[1]) # None
    /\ parse_f64(split(t)[2]) # None
PositionOf(t) == [x |-> parse_f64(split(t)[1])[1], y |-> parse_f64(split(t)[2])[1]]

\* A text that parses to a structure with a string-valued "f0" entry.
NamesObject(t) ==
    /\ json_parse(t) # None
    /\ f0_str(json_parse(t)[1]) # None

\* Some location leaf below n parses, and some payload leaf below n names it.
AnyLeafQualifies(n) ==
    /\ \E k \in 1..Len(descendants(n)) :
          LET d == descendants(n)[k]
          IN  d.tag = "loc" /\ d.text # None /\ TwoNumbers(d.text[1])
    /\ \E k \in 1..Len(descendants(n)) :
          LET d == descendants(n)[k]
          IN  d.tag = "j0" /\ d.text # None /\ NamesObject(d.text[1])

\* The first location leaf below n parses, and the first payload leaf names it.
FirstLeafQualifies(n) ==
    LET loc == find_tag(descendants(n), "loc")
        j0  == find_tag(descendants(n), "j0")
    IN  /\ loc # None /\ loc[1].text # None /\ TwoNumbers(loc[1].text[1])
        /\ j0 # None /\ j0[1].text # None /\ NamesObject(j0[1].text[1])

\* Per named system record: its name and how many of its records qualify,
\* by their first leaves or by any of their leaves.
ExpectedSizes(first) ==
    [i \in 1..Len(NamedNodes) |->
        [name |-> NamedNodes[i].bN[1],
         size |-> Cardinality({k \in 1..Len(descendants(NamedNodes[i])) :
                                  /\ IsRecord(descendants(NamedNodes[i])[k])
                                  /\ IF first
                                     THEN FirstLeafQualifies(descendants(NamedNodes[i])[k])
                                     ELSE AnyLeafQualifies(descendants(NamedNodes[i])[k])})]]
ResultSizes == [k \in 1..Len(Result) |-> [name |-> Result[k].name, size |-> Len(Result[k].objects)]]

\* C8 (as claimed): a planet or generic-entity record of a named system adds
\* an Object iff it has a location leaf that parses as two numbers and a
\* payload leaf that parses to a structure with a string "f0".
C8_AnyLeaf == Returned => SameBag(ResultSizes, ExpectedSizes(FALSE))

\* C8 (amended): ... iff the first location leaf among its descendants parses
\* as two numbers and the first payload leaf among them parses to a structure
\* with a string "f0".  Every Object returned is complete: its position and
\* name are those of such a record; a failing record adds nothing and stops
\* neither the other records nor the other systems.
C8_FirstLeaf ==
    Returned =>
        /\ SameBag(ResultSizes, ExpectedSizes(TRUE))
        /\ \A k \in 1..Len(Result) : \A i \in 1..Len(Result[k].objects) :
              \E j \in 1..Len(descendants(path.root)) :
                  LET n == descendants(path.root)[j]
                  IN  /\ IsRecord(n) /\ FirstLeafQualifies(n)
                      /\ Result[k].objects[i].pos
                            = PositionOf(find_tag(descendants(n), "loc")[1].text[1])
                      /\ Some(Result[k].objects[i].name)
                            = f0_str(json_parse(find_tag(descendants(n), "j0")[1].text[1])[1])

C8_Witness ==
    /\ Returned /\ Len(Result) = 1 /\ Len(Result[1].objects) = 1
    /\ \E j \in 1..Len(descendants(path.root)) :
          LET n == descendants(path.root)[j]
          IN  IsRecord(n) /\ AnyLeafQualifies(n) /\ ~FirstLeafQualifies(n)

\* The objects of the records tagged `tag` below n that extract, by ascending
\* position in the document.
InDocumentOrder(n, tag) ==
    LET d   == descendants(n)
        idx == {k \in 1..Len(d) : d[k].tag = tag /\ extract_object(d[k]) # None}
        nth(i) == CHOOSE k \in idx : Cardinality({j \in idx : j < k}) = i - 1
    IN  [i \in 1..Cardinality(idx) |->
            [extract_object(d[nth(i)])[1] EXCEPT !.planet = (tag = "Plnt")]]

\* C9: in every System's object list no generic-entity object precedes a
\* planet object, and the list is the planet records' objects in document
\* order followed by the generic-entity records' objects in document order.
C9_PlanetsFirst ==
    Returned =>
        \A k \in 1..Len(Result) :
            /\ \A i \in 1..Len(Result[k].objects) : \A j \in 1..Len(Result[k].objects) :
                  i < j => Result[k].objects[i].planet \/ ~Result[k].objects[j].planet
            /\ \E i \in 1..Len(NamedNodes) :
                  /\ NamedNodes[i].bN = Some(Result[k].name)
                  /\ Result[k].objects
                        = InDocumentOrder(NamedNodes[i], "Plnt")
                              \o InDocumentOrder(NamedNodes[i], "CCEnt")

C9_Witness ==
    /\ Returned /\ Len(Result) = 1 /\ Len(Result[1].objects) = 2
    /\ Result[1].objects[1].planet /\ ~Result[1].objects[2].planet
    /\ LET d == descendants(path.root)
       IN  \E i \in 1..Len(d) : \E j \in 1..Len(d) :
              /\ i < j
              /\ d[i].tag = "CCEnt" /\ extract_object(d[i]) # None
              /\ d[j].tag = "Plnt" /\ extract_object(d[j]) # None

====
